---- MODULE Spec2Model ----
(***************************************************************************)
(* IPD billing console (src/app/billing/page.tsx), admission booking       *)
(* (src/app/ipd/page.tsx) and daily performance report                     *)
(* (src/unnamed/part_003).                                                 *)
(*                                                                         *)
(* SpecLedger:      the ledger calculations applied to bounded inputs.     *)
(* Spec:            billing sessions (browser tabs) working on one         *)
(*                  admission that is kept in the shared record store.     *)
(* SpecServices, SpecPayments, SpecPaymentSolo, SpecDischarge,             *)
(* SpecDiscount, SpecClosing:                                              *)
(*                  the sessions restricted to the handlers of one concern.*)
(* SpecPaginator:   the pagination of the invoice and of the daily report  *)
(*                  (src/unnamed/part_003) applied to bounded inputs.      *)
(* SpecBooking:     sessions of the booking page taking beds.              *)
(* SpecAdmissions:  one booking session and the billing sessions that      *)
(*                  discharge.                                             *)
(* SpecReport:      the bed metrics of the daily report, recomputed on     *)
(*                  every change of the beds.                              *)
(*                                                                         *)
(* Money is modelled by integers.  The amounts that are enumerated are     *)
(* multiples of 100, so that total * percentage / 100 is exact.            *)
(* JavaScript arrays are 0-based, sequences here are 1-based: the array    *)
(* index i of the source is position i + 1.                                *)
(***************************************************************************)
EXTENDS Integers, Sequences, FiniteSets, TLC

VARIABLES
    ledgerIn,        \* SpecLedger: the selected record the derived values are computed from
    ledgerOut,       \* SpecLedger: the derived values (empty before the computation)
    store,           \* ipd_bookings/<id>: the stored admission
    bedStatus,       \* beds/<roomType>/<bed>/status
    clock,           \* new Date(): the timestamps taken so far, per kind of entry
    allRecords,      \* per session: useState allRecords
    filteredRecords, \* per session: useState filteredRecords
    selectedRecord,  \* per session: useState selectedRecord (<<>> is null)
    loading,         \* per session: useState loading
    pc,              \* per session: the handler that is awaiting a store write
    closure,         \* per session: what the awaiting handler captured
    aliased,         \* per session: selectedRecord and the allRecords entry share their service objects
    dirty,           \* per session: a value event of the subscription is still to be delivered
    lastCall,        \* per session: history of the latest handleMarkServiceCompleted call,
                     \* or of a discharge that was refused
    okPayments,      \* history: the onSubmitPayment calls that succeeded (count, sum, the
                     \* payments recorded) and whether one has failed
    formHistory,     \* history: the discounts written, oldest first, and the forms whose
                     \* submission the validation has refused
    blocks,          \* paginator: the blocks of the run, in the order of the addToPage calls
    usableHeight,    \* paginator: the height a page can hold
    contentPerPage,  \* paginator: the pages closed so far in the run
    currentPage,     \* paginator: the blocks of the page being filled
    currentHeight,   \* paginator: the estimated height of currentPage
    pages,           \* paginator: useState pages (what the latest finished run has set)
    run,             \* paginator: the addToPage call the run is at (0: no run under way)
    previous,        \* paginator history: input and pages of the run finished before
    bookings,        \* ipd_bookings: the admissions the booking sessions have pushed
    selectedRoomType,\* per booking session: useState selectedRoomType ("" is null)
    bookingBeds,     \* per booking session: useState beds (the options of the bed select)
    bookingForm,     \* per booking session: the roomType and bed values of the form
    bookingLoading,  \* per booking session: useState loading
    bookingPc,       \* per booking session: the write onSubmit is awaiting
    bookingData,     \* per booking session: the data onSubmit was called with
    bedsDirty,       \* per booking session: a value event of the beds subscription is to come
    reportBeds,      \* daily report: useState beds, the beds of every ward
    metrics          \* daily report: useState metrics, the three bed counters

ledgerVars == <<ledgerIn, ledgerOut>>
storeVars == <<store, bedStatus, clock>>
sessionVars == <<allRecords, filteredRecords, selectedRecord, loading, pc, closure, aliased, dirty>>
historyVars == <<lastCall, okPayments, formHistory>>
paginatorVars == <<blocks, usableHeight, contentPerPage, currentPage, currentHeight, pages, run,
                   previous>>
reportVars == <<reportBeds, metrics>>
renderVars == <<ledgerVars, paginatorVars, reportVars>>
bookingVars == <<bookings, selectedRoomType, bookingBeds, bookingForm, bookingLoading, bookingPc, bookingData,
                 bedsDirty>>
vars == <<renderVars, storeVars, sessionVars, historyVars, bookingVars>>

----------------------------------------------------------------------------
(* Bounds *)

\* amounts entered are 100 * 1 .. 100 * MaxAmount
MaxAmount == 1
\* SpecLedger: longest service list
MaxLedgerServices == 2
\* SpecLedger: longest equipment list
MaxLedgerEquipment == 1
\* services added to the admission
MaxServices == 2
\* equipment charges added to the admission
MaxEquipment == 1
\* payments pushed to the admission
MaxPayments == 2
\* payments entered are 100 * 1 .. 100 * MaxPaymentAmount
MaxPaymentAmount == 2
\* discharge dates written to the admission
MaxDischarges == 2
\* discounts written to the admission
MaxDiscounts == 2
\* SpecPaginator: longest enumerated block list
MaxBlocks == 3
\* admissions pushed by the booking sessions
MaxBookings == 2
\* SpecReport: most beds of a ward
MaxWardBeds == 2

Amounts == {100 * k : k \in 1..MaxAmount}
PaymentAmounts == {100 * k : k \in 1..MaxPaymentAmount}
\* what can be typed into the amount field of the payment form
PaymentInputs == PaymentAmounts \cup {0 - 100, 0}
\* SpecLedger: the amounts and prices of the entries
LedgerAmounts == {200, 300, 500}
Percentages == 0..100

----------------------------------------------------------------------------
(* Ledger calculations *)

RECURSIVE SumAmount(_)
SumAmount(services) ==
    IF services = <<>> THEN 0
    ELSE SumAmount(SubSeq(services, 1, Len(services) - 1)) + services[Len(services)].amount

RECURSIVE SumPrice(_)
SumPrice(equipment) ==
    IF equipment = <<>> THEN 0
    ELSE SumPrice(SubSeq(equipment, 1, Len(equipment) - 1)) + equipment[Len(equipment)].price

IsCompleted(s) == s.status = "completed"
IsPending(s) == s.status = "pending"

calculateTotalServicesAmount(services) == SumAmount(services)

\* a sum that forgets the filter on the status
calculateCompletedServicesAmountUnfiltered(services) == SumAmount(services)

calculateCompletedServicesAmount(services) == SumAmount(SelectSeq(services, IsCompleted))

calculatePendingServicesAmount(services) == SumAmount(SelectSeq(services, IsPending))

calculateTotalEquipmentAmount(equipment) == SumPrice(equipment)

\* a discount that forgets the division by 100
calculateDiscountAmountUndivided(total, discountPercentage) == total * discountPercentage

calculateDiscountAmount(total, discountPercentage) == (total * discountPercentage) \div 100

calculateAmountAfterDiscount(total, discount) == total - discount

\* the derived values of the component, for a selected record
DerivedValues(rec) ==
    LET totalServicesAmount == calculateTotalServicesAmount(rec.services)
        totalEquipmentAmount == calculateTotalEquipmentAmount(rec.equipment)
        discountAmount == calculateDiscountAmount(totalServicesAmount + totalEquipmentAmount,
                                                  rec.discountPercentage)
    IN  [totalServicesAmount |-> totalServicesAmount,
         totalEquipmentAmount |-> totalEquipmentAmount,
         pendingServicesAmount |-> calculatePendingServicesAmount(rec.services),
         completedServicesTotalAmount |-> calculateCompletedServicesAmount(rec.services),
         discountPercentage |-> rec.discountPercentage,
         discountAmount |-> discountAmount,
         amountAfterDiscount |->
             calculateAmountAfterDiscount(totalServicesAmount + totalEquipmentAmount, discountAmount)]

----------------------------------------------------------------------------
(* Invoice and report pagination *)

\* InvoiceContent: const pageHeight = 730, the height of the page box
pageHeight == 730
\* InvoiceContent: const bottomPadding = 20
bottomPadding == 20
\* InvoiceContent: padding: '28px 8px 20px 8px' of the page box (border-box)
pagePaddingTop == 28
pagePaddingBottom == 20

\* pageHeight - bottomPadding of InvoiceContent
InvoiceUsableHeight == pageHeight - bottomPadding

\* DPRMultiPage: const pageHeight = 842
reportPageHeight == 842
\* DPRMultiPage: const topOffset = 90, const bottomOffset = 70
topOffset == 90
bottomOffset == 70
\* DPRMultiPage: the value the comment beside maxContentHeight states
statedMaxContentHeight == 702

\* maxContentHeight = pageHeight - (topOffset + bottomOffset) of DPRMultiPage
maxContentHeight == reportPageHeight - (topOffset + bottomOffset)

\* a run that lets the height of the run before stand
StaleRun(height) == [contentPerPage |-> <<>>, currentPage |-> <<>>, currentHeight |-> height]

\* const contentPerPage = [], let currentPage = [], let currentHeight = 0.
\* height is the currentHeight the run before ended with.
FreshRun(height) == [contentPerPage |-> <<>>, currentPage |-> <<>>, currentHeight |-> 0]

\* a test that looks at the block only
OverflowsBlockOnly(height, blockHeight, usable) == blockHeight > usable

\* a test that closes the page that the block would fill exactly
OverflowsAtCapacity(height, blockHeight, usable) == height + blockHeight >= usable

\* currentHeight + height > pageHeight - bottomPadding
Overflows(height, blockHeight, usable) == height + blockHeight > usable

\* a push that forgets the blocks of the page
PushedPageEmptied(content, page) == Append(content, <<>>)

\* contentPerPage.push(<div ..>{currentPage}</div>)
PushedPage(content, page) == Append(content, page)

\* addToPage(element, height); a block is named by the number of its call
addToPage(st, element, height, usable) ==
    IF Overflows(st.currentHeight, height, usable)
    THEN [contentPerPage |-> PushedPage(st.contentPerPage, st.currentPage),
          currentPage |-> <<element>>,
          currentHeight |-> height]
    ELSE [contentPerPage |-> st.contentPerPage,
          currentPage |-> Append(st.currentPage, element),
          currentHeight |-> st.currentHeight + height]

\* if (currentPage.length > 0) contentPerPage.push(..)
RemainingContent(st) ==
    IF Len(st.currentPage) > 0 THEN PushedPage(st.contentPerPage, st.currentPage)
    ELSE st.contentPerPage

\* the component is mounted and its effect has not run
PaginatorIdle ==
    /\ blocks = <<>>
    /\ usableHeight = 0
    /\ contentPerPage = <<>>
    /\ currentPage = <<>>
    /\ currentHeight = 0
    /\ pages = <<>>
    /\ run = 0
    /\ previous = <<>>

\* the effect starts on the blocks bs (their estimated heights); no run is under way
useEffectPaginate(bs, usable) ==
    /\ run = 0
    /\ blocks' = bs
    /\ usableHeight' = usable
    /\ LET st == FreshRun(currentHeight)
       IN  /\ contentPerPage' = st.contentPerPage
           /\ currentPage' = st.currentPage
           /\ currentHeight' = st.currentHeight
    /\ run' = 1
    /\ previous' = IF usableHeight = 0 THEN <<>>
                   ELSE <<[blocks |-> blocks, usableHeight |-> usableHeight, pages |-> pages]>>
    /\ UNCHANGED <<pages, ledgerVars, reportVars, storeVars, sessionVars, historyVars, bookingVars>>

\* the next addToPage call of the run
addToPageCall ==
    /\ run \in DOMAIN blocks
    /\ LET st == addToPage([contentPerPage |-> contentPerPage, currentPage |-> currentPage,
                            currentHeight |-> currentHeight], run, blocks[run], usableHeight)
       IN  /\ contentPerPage' = st.contentPerPage
           /\ currentPage' = st.currentPage
           /\ currentHeight' = st.currentHeight
    /\ run' = run + 1
    /\ UNCHANGED <<blocks, usableHeight, pages, previous, ledgerVars, reportVars, storeVars,
                   sessionVars, historyVars, bookingVars>>

\* the end of the effect: the remaining content, then setPages(contentPerPage)
setPages ==
    /\ run = Len(blocks) + 1
    /\ contentPerPage' = RemainingContent([contentPerPage |-> contentPerPage,
                                           currentPage |-> currentPage,
                                           currentHeight |-> currentHeight])
    /\ pages' = contentPerPage'
    /\ run' = 0
    /\ UNCHANGED <<blocks, usableHeight, currentPage, currentHeight, previous, ledgerVars,
                   reportVars, storeVars, sessionVars, historyVars, bookingVars>>

----------------------------------------------------------------------------
(* The record store and the sessions *)

Sessions == {"s1", "s2"}
PaymentTypes == {"cash"}
\* the bed key the booking stored with the admission ('' when no bed was chosen)
BedKeys == {"bed_1", ""}
\* RoomTypeOptions, two of them
RoomTypes == {"female_ward", "icu"}
\* the bed keys of a ward, in the order of Object.keys
BedIds == <<"bed_1", "bed_2">>
\* beds/<roomType>/<bed>; beds/icu/bed_2 is a path without a bed
BedPaths == RoomTypes \X {"bed_1", "bed_2"}
\* the sessions of the booking page
Bookers == {"b1", "b2"}
\* discount percentages submitted in Spec
Discounts == {0, 10, 100}
\* what can be typed into the field of the discount form
DiscountInputs == Discounts \cup {0 - 10, 110}

\* a field the store does not hold
Absent == -1
\* dischargeDate: '' written by the booking, undefined in a BillingRecord
NoDate == 0

NoClosure == [rec |-> <<>>, index |-> 0, payment |-> <<>>, dischargeDate |-> NoDate]
NoCall == [op |-> "none", index |-> 0]

\* rec.x || 0
OrZero(x) == IF x = Absent THEN 0 ELSE x

\* the BillingRecord the subscription callback builds from a stored admission
BillingRecord(rec) ==
    [amount |-> OrZero(rec.amount),
     totalPaid |-> calculateCompletedServicesAmount(rec.services),
     roomType |-> rec.roomType,
     bed |-> rec.bed,
     services |-> rec.services,
     payments |-> rec.payments,
     equipment |-> rec.equipment,
     dischargeDate |-> rec.dischargeDate,
     discountPercentage |-> OrZero(rec.discountPercentage)]

\* Remaining Balance of the invoice summary, for the selected record rec:
\* amountAfterDiscount + selectedRecord.amount - totalPaid
RemainingBalance(rec) ==
    DerivedValues(rec).amountAfterDiscount + rec.amount - rec.totalPaid

\* patient-details: record.payments.reduce((sum, p) => sum + p.amount, 0)
totalPayments(payments) == SumAmount(payments)

\* patient-details: Outstanding Amount, record.amount - totalPayments, of the
\* stored admission rec (amount: Number(data.amount || 0))
OutstandingAmount(rec) == OrZero(rec.amount) - totalPayments(rec.payments)

\* prev.map(rec => rec.id === updatedRecord.id ? updatedRecord : rec)
ReplaceRecord(prev, updatedRecord) == [k \in DOMAIN prev |-> updatedRecord]

\* the admission as the booking page stored it
BookedAdmission(roomType, bed) ==
    [amount |-> Absent,
     totalPaid |-> Absent,
     roomType |-> roomType,
     bed |-> bed,
     services |-> <<>>,
     payments |-> <<>>,
     equipment |-> <<>>,
     dischargeDate |-> NoDate,
     discountPercentage |-> Absent]

\* reset({.. roomType: female_ward, bed: bed_1 ..}), the defaultValues of the form
DefaultForm == [roomType |-> "female_ward", bed |-> "bed_1"]

\* the booking page is mounted: selectedRoomType is null, and its effect has run
\* setBeds([]) and setValue('bed', {label: 'No Bed', value: ''})
BookingIdle ==
    /\ bookings = <<>>
    /\ selectedRoomType = [b \in Bookers |-> ""]
    /\ bookingBeds = [b \in Bookers |-> <<>>]
    /\ bookingForm = [b \in Bookers |-> [DefaultForm EXCEPT !.bed = ""]]
    /\ bookingLoading = [b \in Bookers |-> FALSE]
    /\ bookingPc = [b \in Bookers |-> "idle"]
    /\ bookingData = [b \in Bookers |-> <<>>]
    /\ bedsDirty = [b \in Bookers |-> FALSE]

\* the wards of the daily report, in the order of Object.keys(beds); a ward
\* without beds has no node in the store
ReportWards == <<"female_ward", "icu">>

\* useState metrics: the bed counters
NoMetrics == [totalBeds |-> 0, bedsOccupied |-> 0, bedsAvailable |-> 0]

\* the daily report is mounted and no value event has arrived: beds is {}
ReportIdle ==
    /\ reportBeds = [w \in 1..Len(ReportWards) |-> <<>>]
    /\ metrics = NoMetrics

\* the inventory when the admission of the store has been booked into the icu
Inventory(bed) ==
    [p \in BedPaths |-> IF bed # "" /\ p = <<"icu", bed>> THEN "Occupied"
                        ELSE IF p = <<"icu", "bed_2">> THEN "Missing"
                        ELSE "Available"]

SessionInit ==
    /\ \E bed \in BedKeys : store = BookedAdmission("icu", bed)
    /\ bedStatus = Inventory(store.bed)
    /\ BookingIdle
    /\ ReportIdle
    /\ clock = [service |-> 0, equipment |-> 0, payment |-> 0, discharge |-> 0]
    /\ allRecords = [s \in Sessions |-> <<>>]
    /\ filteredRecords = [s \in Sessions |-> <<>>]
    /\ selectedRecord = [s \in Sessions |-> <<>>]
    /\ loading = [s \in Sessions |-> FALSE]
    /\ pc = [s \in Sessions |-> "idle"]
    /\ closure = [s \in Sessions |-> NoClosure]
    /\ aliased = [s \in Sessions |-> FALSE]
    /\ dirty = [s \in Sessions |-> TRUE]
    /\ lastCall = [s \in Sessions |-> NoCall]
    /\ okPayments = [count |-> 0, sum |-> 0, recorded |-> {}, failed |-> FALSE]
    /\ formHistory = [discounts |-> <<>>, refused |-> {}]

----------------------------------------------------------------------------
(* What the handlers have in common *)

Selected(s) == selectedRecord[s][1]

\* a form or button of the details view can be used: a record is selected, it shows
\* no discharge date, no handler of the session is awaiting (disabled={loading})
CanSubmit(s) ==
    /\ selectedRecord[s] # <<>>
    /\ Selected(s).dischargeDate = NoDate
    /\ ~loading[s]
    /\ pc[s] = "idle"

\* A write of session s reached ipd_bookings and every subscription has fired
\* (value events arrive before the next click of the staff).  The handler of s goes
\* on after the await with
\* setSelectedRecord(updatedRecord); setAllRecords(prev => prev.map(..));
\* setFilteredRecords(prev => prev.map(..))
\* when it has an updatedRecord to show (shown is <<updatedRecord>>, else <<>>).
Written(s, shown) ==
    /\ allRecords' = [t \in Sessions |->
          IF t = s /\ shown # <<>> THEN ReplaceRecord(<<BillingRecord(store')>>, shown[1])
          ELSE <<BillingRecord(store')>>]
    /\ filteredRecords' = allRecords'
    /\ aliased' = [t \in Sessions |-> t = s /\ shown # <<>>]
    /\ dirty' = [t \in Sessions |-> FALSE]
    /\ selectedRecord' = IF shown # <<>> THEN [selectedRecord EXCEPT ![s] = shown]
                         ELSE selectedRecord

\* The write of session s was rejected: the store keeps its value, the
\* subscription of s shows it again, the handler goes to its catch block.
Rejected(s) ==
    /\ UNCHANGED <<storeVars, selectedRecord>>
    /\ allRecords' = [allRecords EXCEPT ![s] = <<BillingRecord(store)>>]
    /\ filteredRecords' = [filteredRecords EXCEPT ![s] = <<BillingRecord(store)>>]
    /\ aliased' = [aliased EXCEPT ![s] = FALSE]
    /\ dirty' = [dirty EXCEPT ![s] = FALSE]

\* the handler awaits its next write
Awaiting(s, label, captured) ==
    /\ loading' = [loading EXCEPT ![s] = TRUE]
    /\ pc' = [pc EXCEPT ![s] = label]
    /\ closure' = [closure EXCEPT ![s] = captured]

\* the handler ran from start to end without leaving an await open
Finished(s) ==
    /\ loading' = [loading EXCEPT ![s] = FALSE]
    /\ pc' = [pc EXCEPT ![s] = "idle"]
    /\ closure' = [closure EXCEPT ![s] = NoClosure]

ForgetCall(s) == lastCall' = [lastCall EXCEPT ![s] = NoCall]

----------------------------------------------------------------------------
(* Subscription and navigation *)

\* onValue(billingRef, ..): the first value event after the page of session s mounted
OnValue(s) ==
    /\ dirty[s]
    /\ allRecords' = [allRecords EXCEPT ![s] = <<BillingRecord(store)>>]
    /\ filteredRecords' = [filteredRecords EXCEPT ![s] = <<BillingRecord(store)>>]
    /\ aliased' = [aliased EXCEPT ![s] = FALSE]
    /\ dirty' = [dirty EXCEPT ![s] = FALSE]
    /\ UNCHANGED <<renderVars, bookingVars, storeVars, selectedRecord, loading, pc, closure, historyVars>>

\* handleSearch: matches says whether the term is empty or matches the admission
handleSearch(s, matches) ==
    /\ filteredRecords' = [filteredRecords EXCEPT ![s] = IF matches THEN allRecords[s] ELSE <<>>]
    /\ selectedRecord' = [selectedRecord EXCEPT ![s] = <<>>]
    /\ aliased' = [aliased EXCEPT ![s] = FALSE]
    /\ ForgetCall(s)
    /\ UNCHANGED <<renderVars, bookingVars, storeVars, allRecords, loading, pc, closure, dirty, okPayments, formHistory>>

\* handleSelectRecord(rec), rec a row of the result table (shown while nothing is selected)
handleSelectRecord(s) ==
    /\ selectedRecord[s] = <<>>
    /\ filteredRecords[s] # <<>>
    /\ selectedRecord' = [selectedRecord EXCEPT ![s] = <<filteredRecords[s][1]>>]
    /\ aliased' = [aliased EXCEPT ![s] = TRUE]
    /\ ForgetCall(s)
    /\ UNCHANGED <<renderVars, bookingVars, storeVars, allRecords, filteredRecords, loading, pc, closure,
                   dirty, okPayments, formHistory>>

\* Back to Results: setSelectedRecord(null)
BackToResults(s) ==
    /\ selectedRecord[s] # <<>>
    /\ selectedRecord' = [selectedRecord EXCEPT ![s] = <<>>]
    /\ aliased' = [aliased EXCEPT ![s] = FALSE]
    /\ ForgetCall(s)
    /\ UNCHANGED <<renderVars, bookingVars, storeVars, allRecords, filteredRecords, loading, pc, closure,
                   dirty, okPayments, formHistory>>

----------------------------------------------------------------------------
(* Add Additional Service *)

\* a totalPaid that counts the pending services too
ServiceWriteTotal(updatedServices) ==
    [services |-> updatedServices,
     totalPaid |-> calculateTotalServicesAmount(updatedServices)]

\* update(recordRef, {services: updatedServices, totalPaid: ..})
ServiceWrite(updatedServices) ==
    [services |-> updatedServices,
     totalPaid |-> calculateCompletedServicesAmount(updatedServices)]

\* updatedServices = [newService, ...currentServices]
AddedServices(currentServices, newService) == <<newService>> \o currentServices

onSubmitAdditionalService(s, amount, ok) ==
    /\ CanSubmit(s)
    /\ clock.service < MaxServices
    /\ LET newService == [amount |-> amount, status |-> "pending",
                          createdAt |-> clock.service + 1]
           w == ServiceWrite(AddedServices(Selected(s).services, newService))
       IN  IF ok
           THEN /\ store' = [store EXCEPT !.services = w.services, !.totalPaid = w.totalPaid]
                /\ clock' = [clock EXCEPT !.service = @ + 1]
                /\ UNCHANGED bedStatus
                /\ Written(s, <<[Selected(s) EXCEPT !.services = w.services,
                                                     !.totalPaid = w.totalPaid]>>)
           ELSE Rejected(s)
    /\ Finished(s)
    /\ ForgetCall(s)
    /\ UNCHANGED <<renderVars, bookingVars, okPayments, formHistory>>

----------------------------------------------------------------------------
(* Add Additional Equipment *)

onSubmitEquipment(s, price, ok) ==
    /\ CanSubmit(s)
    /\ clock.equipment < MaxEquipment
    /\ LET newEquipment == [price |-> price, createdAt |-> clock.equipment + 1]
           updatedEquipment == <<newEquipment>> \o Selected(s).equipment
       IN  IF ok
           THEN /\ store' = [store EXCEPT !.equipment = updatedEquipment]
                /\ clock' = [clock EXCEPT !.equipment = @ + 1]
                /\ UNCHANGED bedStatus
                /\ Written(s, <<[Selected(s) EXCEPT !.equipment = updatedEquipment]>>)
           ELSE Rejected(s)
    /\ Finished(s)
    /\ ForgetCall(s)
    /\ UNCHANGED <<renderVars, bookingVars, okPayments, formHistory>>

----------------------------------------------------------------------------
(* Add Discount *)

\* a submission that passes the schema clears the validation error of the form
NotRefused(s, form) ==
    formHistory' = [formHistory EXCEPT !.refused = @ \ {<<s, form>>}]

\* discountSchema: number().min(0).max(100)
discountSchema(discountPercentage) == discountPercentage >= 0 /\ discountPercentage <= 100

\* handleSubmitDiscount(onSubmitDiscount) with a value the schema refuses: the
\* form shows the message and onSubmitDiscount is not called
handleSubmitDiscountInvalid(s, discountPercentage) ==
    /\ CanSubmit(s)
    /\ ~discountSchema(discountPercentage)
    /\ formHistory' = [formHistory EXCEPT !.refused = @ \cup {<<s, "discount">>}]
    /\ UNCHANGED <<renderVars, bookingVars, storeVars, sessionVars, lastCall, okPayments>>

\* a discount that is added to the discount of the record
DiscountWriteAccumulating(rec, discountValue) ==
    [discountPercentage |-> rec.discountPercentage + discountValue]

\* update(recordRef, {discountPercentage: discountValue})
DiscountWrite(rec, discountValue) == [discountPercentage |-> discountValue]

onSubmitDiscount(s, discountValue, ok) ==
    /\ CanSubmit(s)
    /\ discountSchema(discountValue)
    /\ Len(formHistory.discounts) < MaxDiscounts
    /\ LET w == DiscountWrite(Selected(s), discountValue)
       IN  IF ok
           THEN /\ store' = [store EXCEPT !.discountPercentage = w.discountPercentage]
                /\ UNCHANGED <<bedStatus, clock>>
                /\ Written(s, <<[Selected(s) EXCEPT
                                    !.discountPercentage = w.discountPercentage]>>)
                /\ formHistory' = [discounts |-> Append(formHistory.discounts, discountValue),
                                   refused |-> formHistory.refused \ {<<s, "discount">>}]
           ELSE /\ Rejected(s)
                /\ NotRefused(s, "discount")
    /\ Finished(s)
    /\ ForgetCall(s)
    /\ UNCHANGED <<renderVars, bookingVars, okPayments>>

----------------------------------------------------------------------------
(* Add Payment *)

\* a deposit that is set to the payment instead of raised by it
PaymentWriteOverwriting(rec, newPayment) ==
    [payments |-> <<newPayment>> \o rec.payments,
     amount |-> newPayment.amount]

\* update(recordRef, {payments: updatedPayments under fresh keys, amount: updatedDeposit})
PaymentWrite(rec, newPayment) ==
    [payments |-> <<newPayment>> \o rec.payments,
     amount |-> rec.amount + newPayment.amount]

\* a schema that lets 0 through
paymentSchemaNonNegative(paymentAmount) == paymentAmount >= 0

\* paymentSchema: number().positive()
paymentSchema(paymentAmount) == paymentAmount > 0

\* handleSubmitPayment(onSubmitPayment) with an amount the schema refuses: the
\* form shows the message and onSubmitPayment is not called
handleSubmitPaymentInvalid(s, paymentAmount) ==
    /\ CanSubmit(s)
    /\ ~paymentSchema(paymentAmount)
    /\ formHistory' = [formHistory EXCEPT !.refused = @ \cup {<<s, "payment">>}]
    /\ UNCHANGED <<renderVars, bookingVars, storeVars, sessionVars, lastCall, okPayments>>

\* up to the first await: update(newPaymentRef, newPayment)
onSubmitPayment(s, paymentAmount, paymentType, ok) ==
    /\ CanSubmit(s)
    /\ paymentSchema(paymentAmount)
    /\ clock.payment < MaxPayments
    /\ LET newPayment == [amount |-> paymentAmount, paymentType |-> paymentType,
                          date |-> clock.payment + 1]
       IN  IF ok
           THEN /\ store' = [store EXCEPT !.payments = Append(@, newPayment)]
                /\ clock' = [clock EXCEPT !.payment = @ + 1]
                /\ UNCHANGED bedStatus
                /\ Written(s, <<>>)
                /\ Awaiting(s, "payment", [NoClosure EXCEPT !.rec = selectedRecord[s],
                                                            !.payment = <<newPayment>>])
                /\ UNCHANGED okPayments
           ELSE /\ Rejected(s)
                /\ Finished(s)
                /\ okPayments' = [okPayments EXCEPT !.failed = TRUE]
    /\ ForgetCall(s)
    /\ NotRefused(s, "payment")
    /\ UNCHANGED <<renderVars, bookingVars>>

\* from the first await on: update(recordRef, {payments, amount})
onSubmitPaymentUpdate(s, ok) ==
    /\ pc[s] = "payment"
    /\ LET rec == closure[s].rec[1]
           newPayment == closure[s].payment[1]
           w == PaymentWrite(rec, newPayment)
       IN  IF ok
           THEN /\ store' = [store EXCEPT !.payments = w.payments, !.amount = w.amount]
                /\ UNCHANGED <<bedStatus, clock>>
                /\ Written(s, <<[rec EXCEPT !.payments = w.payments, !.amount = w.amount]>>)
                /\ okPayments' = [okPayments EXCEPT !.count = @ + 1,
                                                     !.sum = @ + newPayment.amount,
                                                     !.recorded = @ \cup {newPayment}]
           ELSE /\ Rejected(s)
                /\ okPayments' = [okPayments EXCEPT !.failed = TRUE]
    /\ Finished(s)
    /\ ForgetCall(s)
    /\ UNCHANGED <<renderVars, bookingVars, formHistory>>

----------------------------------------------------------------------------
(* Mark Service as Completed *)

\* a guard that forgets the services that are completed already
MarkIsNoOpOutOfRange(services, index) == index \notin DOMAIN services

\* !currentServices[index] || currentServices[index].status === 'completed'
MarkIsNoOp(services, index) ==
    IF index \notin DOMAIN services THEN TRUE ELSE services[index].status = "completed"

\* currentServices[index].status = 'completed'
MarkedServices(services, index) == [services EXCEPT ![index].status = "completed"]

\* the early return of the handler
handleMarkServiceCompletedNoOp(s, index) ==
    /\ selectedRecord[s] # <<>>
    /\ ~loading[s]
    /\ pc[s] = "idle"
    /\ MarkIsNoOp(Selected(s).services, index)
    /\ loading' = [loading EXCEPT ![s] = FALSE]
    /\ lastCall' = [lastCall EXCEPT ![s] =
                       [op |-> IF index \in DOMAIN Selected(s).services
                               THEN "returned: completed" ELSE "returned: missing",
                        index |-> 0]]
    /\ UNCHANGED <<renderVars, bookingVars, storeVars, allRecords, filteredRecords, selectedRecord, pc,
                   closure, aliased, dirty, okPayments, formHistory>>

\* up to the await.  currentServices is a copy of the array, not of the service
\* objects: the assignment changes the service of selectedRecord, and of the
\* allRecords and filteredRecords entries when they are the same record.
handleMarkServiceCompleted(s, index) ==
    /\ CanSubmit(s)
    /\ ~MarkIsNoOp(Selected(s).services, index)
    /\ LET marked == [Selected(s) EXCEPT !.services = MarkedServices(@, index)]
       IN  /\ selectedRecord' = [selectedRecord EXCEPT ![s] = <<marked>>]
           /\ allRecords' = [allRecords EXCEPT ![s] =
                                IF aliased[s] THEN ReplaceRecord(@, marked) ELSE @]
           /\ filteredRecords' = [filteredRecords EXCEPT ![s] =
                                IF aliased[s] THEN ReplaceRecord(@, marked) ELSE @]
           /\ Awaiting(s, "mark", [NoClosure EXCEPT !.rec = <<marked>>, !.index = index])
    /\ lastCall' = [lastCall EXCEPT ![s] = [op |-> "begun", index |-> index]]
    /\ UNCHANGED <<renderVars, bookingVars, storeVars, aliased, dirty, okPayments, formHistory>>

\* from the await on: update(recordRef, {services: currentServices, totalPaid})
handleMarkServiceCompletedUpdate(s, ok) ==
    /\ pc[s] = "mark"
    /\ LET rec == closure[s].rec[1]
           w == ServiceWrite(rec.services)
       IN  IF ok
           THEN /\ store' = [store EXCEPT !.services = w.services, !.totalPaid = w.totalPaid]
                /\ UNCHANGED <<bedStatus, clock>>
                /\ Written(s, <<[rec EXCEPT !.services = w.services,
                                            !.totalPaid = w.totalPaid]>>)
           ELSE Rejected(s)
    /\ Finished(s)
    /\ lastCall' = [lastCall EXCEPT ![s] =
                       IF @.op = "begun" THEN [@ EXCEPT !.op = IF ok THEN "done" ELSE "failed"]
                       ELSE NoCall]
    /\ UNCHANGED <<renderVars, bookingVars, okPayments, formHistory>>

----------------------------------------------------------------------------
(* Discharge Patient *)

\* a check that looks at the room type only
DischargeInfoMissingRoomType(rec) == rec.roomType = ""

\* !selectedRecord.roomType || !selectedRecord.bed
DischargeInfoMissing(rec) == rec.roomType = "" \/ rec.bed = ""

\* the early return: an error toast and nothing else
handleDischargeRefused(s) ==
    /\ CanSubmit(s)
    /\ DischargeInfoMissing(Selected(s))
    /\ lastCall' = [lastCall EXCEPT ![s] = [op |-> "discharge refused", index |-> 0]]
    /\ UNCHANGED <<renderVars, bookingVars, storeVars, sessionVars, okPayments, formHistory>>

\* up to the first await: update(bookingRef, {dischargeDate})
handleDischarge(s, ok) ==
    /\ CanSubmit(s)
    /\ ~DischargeInfoMissing(Selected(s))
    /\ clock.discharge < MaxDischarges
    /\ IF ok
       THEN /\ store' = [store EXCEPT !.dischargeDate = clock.discharge + 1]
            /\ clock' = [clock EXCEPT !.discharge = @ + 1]
            /\ UNCHANGED bedStatus
            /\ Written(s, <<>>)
            /\ Awaiting(s, "discharge", [NoClosure EXCEPT !.rec = selectedRecord[s],
                                                           !.dischargeDate = clock.discharge + 1])
       ELSE /\ Rejected(s)
            /\ Finished(s)
    /\ ForgetCall(s)
    /\ UNCHANGED <<renderVars, bookingVars, okPayments, formHistory>>

\* from the first await on: update(bedRef, {status: "Available"}); beds are not
\* under ipd_bookings, so no subscription of the page fires
handleDischargeBed(s, ok) ==
    /\ pc[s] = "discharge"
    /\ IF ok
       THEN /\ bedStatus' = [bedStatus EXCEPT
                                ![<<closure[s].rec[1].roomType, closure[s].rec[1].bed>>] =
                                    "Available"]
            /\ bedsDirty' = [b \in Bookers |->
                                bedsDirty[b] \/ selectedRoomType[b] = closure[s].rec[1].roomType]
            /\ LET updatedRecord == [closure[s].rec[1] EXCEPT
                                        !.dischargeDate = closure[s].dischargeDate]
               IN  /\ selectedRecord' = [selectedRecord EXCEPT ![s] = <<updatedRecord>>]
                   /\ allRecords' = [allRecords EXCEPT ![s] = ReplaceRecord(@, updatedRecord)]
                   /\ filteredRecords' = [filteredRecords EXCEPT ![s] =
                                             ReplaceRecord(@, updatedRecord)]
                   /\ aliased' = [aliased EXCEPT ![s] = TRUE]
       ELSE /\ UNCHANGED <<bedStatus, bedsDirty, allRecords, filteredRecords, selectedRecord,
                           aliased>>
    /\ Finished(s)
    /\ ForgetCall(s)
    /\ UNCHANGED <<renderVars, store, clock, dirty, okPayments, formHistory, bookings,
                   selectedRoomType, bookingBeds, bookingForm, bookingLoading, bookingPc,
                   bookingData>>

----------------------------------------------------------------------------
(* Admission booking (src/app/ipd/page.tsx) *)

\* Object.keys(data).filter(key => data[key].status === "Available"), for the
\* ward roomType of the inventory status
AvailableBeds(status, roomType) ==
    SelectSeq(BedIds, LAMBDA id : status[<<roomType, id>>] = "Available")

\* setValue('bed', bedsList[0]), or setValue('bed', {label: 'No Bed', value: ''})
BedAfterValue(bed, bedsList) == IF bedsList # <<>> THEN bedsList[1] ELSE ""

\* the callback of the beds subscription of booking session b, for the inventory status
BedsValue(b, status) ==
    LET bedsList == AvailableBeds(status, selectedRoomType[b])
    IN  /\ bookingBeds' = [bookingBeds EXCEPT ![b] = bedsList]
        /\ bookingForm' = [bookingForm EXCEPT ![b].bed = BedAfterValue(@, bedsList)]

\* the other booking sessions that watch the ward get their value event later
OthersDirty(b, roomType) ==
    bedsDirty' = [c \in Bookers |-> bedsDirty[c] \/ (c # b /\ selectedRoomType[c] = roomType)]

\* the room type select: field.onChange(value); setSelectedRoomType(value).  The
\* effect subscribes to beds/<roomType> when selectedRoomType has changed.
handleRoomTypeChange(b, roomType) ==
    /\ roomType # bookingForm[b].roomType \/ roomType # selectedRoomType[b]
    /\ bookingForm' = [bookingForm EXCEPT ![b].roomType = roomType]
    /\ selectedRoomType' = [selectedRoomType EXCEPT ![b] = roomType]
    /\ bedsDirty' = [bedsDirty EXCEPT ![b] = @ \/ roomType # selectedRoomType[b]]
    /\ UNCHANGED <<renderVars, storeVars, sessionVars, historyVars, bookings, bookingBeds,
                   bookingLoading, bookingPc, bookingData>>

\* onValue(bedsRef, ..): a value event of the beds subscription arrives
bedsOnValue(b) ==
    /\ bedsDirty[b]
    /\ selectedRoomType[b] # ""
    /\ BedsValue(b, bedStatus)
    /\ bedsDirty' = [bedsDirty EXCEPT ![b] = FALSE]
    /\ UNCHANGED <<renderVars, storeVars, sessionVars, historyVars, bookings, selectedRoomType,
                   bookingLoading, bookingPc, bookingData>>

\* the bed select (isDisabled={!selectedRoomType || beds.length === 0})
handleBedChange(b, bed) ==
    /\ selectedRoomType[b] # ""
    /\ \E i \in DOMAIN bookingBeds[b] : bookingBeds[b][i] = bed
    /\ bed # bookingForm[b].bed
    /\ bookingForm' = [bookingForm EXCEPT ![b].bed = bed]
    /\ UNCHANGED <<renderVars, storeVars, sessionVars, historyVars, bookings, selectedRoomType,
                   bookingBeds, bookingLoading, bookingPc, bookingData, bedsDirty>>

\* ref(db, `beds/${data.roomType.value}/${data.bed.value}`)
BedRef(data) == <<data.roomType, data.bed>>

\* onSubmit(data) up to its first await, update(bedRef, {status: "Occupied"}); the
\* submit button is disabled={loading || !bedsAvailable}.  A write that changes
\* the status fires the session's own subscription at once, and when the write
\* is rejected a second value event takes the change back.
onSubmit(b, ok) ==
    /\ ~bookingLoading[b]
    /\ bookingPc[b] = "idle"
    /\ bookingBeds[b] # <<>>
    /\ Len(bookings) < MaxBookings
    /\ LET data == bookingForm[b]
           bedRef == BedRef(data)
       IN  IF data.bed # "" /\ data.roomType # ""
           THEN /\ IF ok
                   THEN /\ bedStatus' = [bedStatus EXCEPT ![bedRef] = "Occupied"]
                        /\ IF bedStatus[bedRef] # "Occupied" THEN OthersDirty(b, bedRef[1])
                           ELSE UNCHANGED bedsDirty
                        /\ bookingLoading' = [bookingLoading EXCEPT ![b] = TRUE]
                        /\ bookingPc' = [bookingPc EXCEPT ![b] = "admission"]
                        /\ bookingData' = [bookingData EXCEPT ![b] = <<data>>]
                   ELSE /\ UNCHANGED <<bedStatus, bedsDirty, bookingLoading, bookingPc,
                                       bookingData>>
                /\ IF selectedRoomType[b] = bedRef[1] /\ bedStatus[bedRef] # "Occupied"
                   THEN BedsValue(b, bedStatus')
                   ELSE UNCHANGED <<bookingBeds, bookingForm>>
           ELSE /\ ok
                /\ bookingLoading' = [bookingLoading EXCEPT ![b] = TRUE]
                /\ bookingPc' = [bookingPc EXCEPT ![b] = "admission"]
                /\ bookingData' = [bookingData EXCEPT ![b] = <<data>>]
                /\ UNCHANGED <<bedStatus, bedsDirty, bookingBeds, bookingForm>>
    /\ UNCHANGED <<renderVars, store, clock, sessionVars, historyVars, bookings,
                   selectedRoomType>>

\* onSubmit from its first await on: update(newIpdRef, admissionData), then
\* reset({.. roomType: female_ward, bed: bed_1 ..}); setPreviewData(null).  The
\* catch block logs the error and shows a toast.
onSubmitAdmission(b, ok) ==
    /\ bookingPc[b] = "admission"
    /\ LET data == bookingData[b][1]
       IN  IF ok
           THEN /\ bookings' = Append(bookings, [roomType |-> data.roomType, bed |-> data.bed,
                                                 dischargeDate |-> NoDate])
                /\ bookingForm' = [bookingForm EXCEPT ![b] = DefaultForm]
                /\ UNCHANGED bedStatus
           ELSE UNCHANGED <<bedStatus, bookings, bookingForm>>
    /\ bookingLoading' = [bookingLoading EXCEPT ![b] = FALSE]
    /\ bookingPc' = [bookingPc EXCEPT ![b] = "idle"]
    /\ bookingData' = [bookingData EXCEPT ![b] = <<>>]
    /\ UNCHANGED <<renderVars, store, clock, sessionVars, historyVars, selectedRoomType,
                   bookingBeds, bedsDirty>>

----------------------------------------------------------------------------
(* Daily performance report: the bed metrics (src/unnamed/part_003) *)

\* Strings are modelled by the sequences of their characters.
Available == <<"A", "v", "a", "i", "l", "a", "b", "l", "e">>
Occupied == <<"O", "c", "c", "u", "p", "i", "e", "d">>
occupied == <<"o", "c", "c", "u", "p", "i", "e", "d">>
OCCUPIED == <<"O", "C", "C", "U", "P", "I", "E", "D">>

\* the status a bed node can hold: the two status options of the bed form and
\* the other spellings of the second
BedStatuses == {Available, Occupied, occupied, OCCUPIED}

\* the capital letters and their small letters
CasePairs ==
    {<<"A", "a">>, <<"B", "b">>, <<"C", "c">>, <<"D", "d">>, <<"E", "e">>, <<"I", "i">>,
     <<"L", "l">>, <<"O", "o">>, <<"P", "p">>, <<"U", "u">>, <<"V", "v">>}

\* a comparison of the status as it is stored
statusAsStored(str) == str

\* String.prototype.toLowerCase
toLowerCase(str) ==
    [i \in DOMAIN str |->
        IF \E pair \in CasePairs : pair[1] = str[i]
        THEN (CHOOSE pair \in CasePairs : pair[1] = str[i])[2]
        ELSE str[i]]

\* the body of the inner forEach: one bed is counted
CountBed(m, bed) ==
    IF toLowerCase(bed.status) = occupied
    THEN [m EXCEPT !.totalBeds = @ + 1, !.bedsOccupied = @ + 1]
    ELSE [m EXCEPT !.totalBeds = @ + 1, !.bedsAvailable = @ + 1]

RECURSIVE CountWard(_, _)
\* Object.keys(beds[ward]).forEach
CountWard(m, wardBeds) ==
    IF wardBeds = <<>> THEN m
    ELSE CountWard(CountBed(m, Head(wardBeds)), Tail(wardBeds))

RECURSIVE CountWards(_, _, _)
\* Object.keys(beds).forEach, from ward w on
CountWards(m, beds, w) ==
    IF w > Len(ReportWards) THEN m
    ELSE CountWards(CountWard(m, beds[w]), beds, w + 1)

\* the three counters start at 0 and are handed to setMetrics
CalculateMetrics(beds) == CountWards(NoMetrics, beds, 1)

\* a value event of beds: setBeds, and the effect that depends on beds
reportOnValue(data) ==
    /\ reportBeds' = data
    /\ metrics' = CalculateMetrics(data)
    /\ UNCHANGED <<ledgerVars, paginatorVars, storeVars, sessionVars, historyVars, bookingVars>>

\* a bed is added on the bed management page
bedAdded(w, status) ==
    /\ Len(reportBeds[w]) < MaxWardBeds
    /\ reportOnValue([reportBeds EXCEPT ![w] = Append(@, [status |-> status])])

\* the status of a bed is written: by the bed management page, by a booking or
\* by a discharge
bedUpdated(w, i, status) ==
    /\ i \in DOMAIN reportBeds[w]
    /\ reportBeds[w][i].status # status
    /\ reportOnValue([reportBeds EXCEPT ![w][i].status = status])

\* a bed is deleted on the bed management page
bedDeleted(w, i) ==
    /\ i \in DOMAIN reportBeds[w]
    /\ reportOnValue([reportBeds EXCEPT
                         ![w] = SubSeq(@, 1, i - 1) \o SubSeq(@, i + 1, Len(@))])

----------------------------------------------------------------------------
(* The ledger calculations on bounded inputs *)

BoundedSeq(S, n) == UNION {[1..k -> S] : k \in 0..n}

LedgerInputs ==
    [services : BoundedSeq([amount : LedgerAmounts, status : {"pending", "completed"}],
                           MaxLedgerServices),
     equipment : BoundedSeq([price : LedgerAmounts], MaxLedgerEquipment),
     discountPercentage : Percentages]

InitLedger ==
    /\ ledgerIn \in LedgerInputs
    /\ ledgerOut = <<>>
    /\ PaginatorIdle
    /\ SessionInit
    /\ store.bed # ""

\* the component renders with ledgerIn as its selectedRecord
Derive ==
    /\ ledgerOut = <<>>
    /\ ledgerOut' = <<DerivedValues(ledgerIn)>>
    /\ UNCHANGED <<ledgerIn, paginatorVars, reportVars, storeVars, sessionVars, historyVars,
                   bookingVars>>

NextLedger == Derive

SpecLedger == InitLedger /\ [][NextLedger]_vars

LedgerIdle ==
    /\ ledgerIn = [services |-> <<>>, equipment |-> <<>>, discountPercentage |-> 0]
    /\ ledgerOut = <<>>

----------------------------------------------------------------------------
(* The paginator on bounded inputs *)

\* estimated heights of the blocks that are enumerated
BlockHeights == {200, 300, 900}

\* rows of the services and of the equipment table of an invoice
InvoiceRows == {0, 4, 14}

\* rows of the bed and of the mortality table of a report
ReportRows == {0, 20, 57}

\* header 100, 50 + 50 per service, 50 + 50 per equipment, summary 200, footer 100
InvoiceBlocks(services, equipment) ==
    <<100, 50 + services * 50, 50 + equipment * 50, 200, 100>>

\* header 40, metrics 120, 24 + 12 per bed, 24 + 12 per mortality report, footer 30
ReportBlocks(beds, reports) ==
    <<40, 120, beds * 12 + 24, reports * 12 + 24, 30>>

PaginatorInputs ==
    [blocks : BoundedSeq(BlockHeights, MaxBlocks) \cup {<<40, 120, 400, 300>>},
     usableHeight : {500}]
    \cup {[blocks |-> InvoiceBlocks(n, m), usableHeight |-> InvoiceUsableHeight] :
              n \in InvoiceRows, m \in InvoiceRows}
    \cup {[blocks |-> ReportBlocks(n, m), usableHeight |-> maxContentHeight] :
              n \in ReportRows, m \in ReportRows}

InitPaginator ==
    /\ LedgerIdle
    /\ PaginatorIdle
    /\ SessionInit
    /\ store.bed # ""

NextPaginator ==
    \/ \E in \in PaginatorInputs : useEffectPaginate(in.blocks, in.usableHeight)
    \/ addToPageCall
    \/ setPages

SpecPaginator == InitPaginator /\ [][NextPaginator]_vars

----------------------------------------------------------------------------
(* Properties of the ledger calculations (SpecLedger) *)

Derived == ledgerOut[1]

\* C1: for every service list, the completed amount plus the pending amount is
\* the total amount, and all three are 0 for the empty list.
ServicesPartition ==
    ledgerOut # <<>> =>
        /\ Derived.completedServicesTotalAmount + Derived.pendingServicesAmount
               = Derived.totalServicesAmount
        /\ ledgerIn.services = <<>> =>
               /\ Derived.totalServicesAmount = 0
               /\ Derived.completedServicesTotalAmount = 0
               /\ Derived.pendingServicesAmount = 0

\* the sums of a list that holds a completed and a pending service were derived
ServicesPartitionWitness ==
    /\ ledgerOut # <<>>
    /\ Len(ledgerIn.services) = 2
    /\ ledgerIn.services[1].status = "completed"
    /\ ledgerIn.services[2].status = "pending"
    /\ Derived.completedServicesTotalAmount > 0
    /\ Derived.pendingServicesAmount > 0

\* services = [{500, completed}, {300, pending}], equipment = [{200}], discount 10
ScenarioRecord ==
    [services |-> <<[amount |-> 500, status |-> "completed"],
                    [amount |-> 300, status |-> "pending"]>>,
     equipment |-> <<[price |-> 200]>>,
     discountPercentage |-> 10]

\* C2: discountAmount is (services + equipment) * percentage / 100 and
\* amountAfterDiscount is the combined total less the discount, so the discount
\* lies between 0 and the combined total and the two add up to it; the scenario
\* record gives 800, 200, 1000, 100, 900, 500, 300.
DiscountArithmetic ==
    ledgerOut # <<>> =>
        LET combined == Derived.totalServicesAmount + Derived.totalEquipmentAmount
        IN  /\ Derived.discountAmount * 100 = combined * ledgerIn.discountPercentage
            /\ Derived.amountAfterDiscount = combined - Derived.discountAmount
            /\ 0 <= Derived.discountAmount
            /\ Derived.discountAmount <= combined
            /\ Derived.discountAmount + Derived.amountAfterDiscount = combined
            /\ ledgerIn = ScenarioRecord =>
                   /\ Derived.totalServicesAmount = 800
                   /\ Derived.totalEquipmentAmount = 200
                   /\ combined = 1000
                   /\ Derived.discountAmount = 100
                   /\ Derived.amountAfterDiscount = 900
                   /\ Derived.completedServicesTotalAmount = 500
                   /\ Derived.pendingServicesAmount = 300

\* the values of the scenario record were derived
DiscountArithmeticWitness ==
    /\ ledgerOut # <<>>
    /\ ledgerIn = ScenarioRecord
    /\ Derived.discountAmount = 100

----------------------------------------------------------------------------
(* Specifications *)

Init ==
    /\ LedgerIdle
    /\ PaginatorIdle
    /\ SessionInit

\* the admission has a bed
InitWithBed ==
    /\ Init
    /\ store.bed # ""

Next ==
    \/ \E s \in Sessions : OnValue(s)
    \/ \E s \in Sessions, matches \in BOOLEAN : handleSearch(s, matches)
    \/ \E s \in Sessions : handleSelectRecord(s)
    \/ \E s \in Sessions : BackToResults(s)
    \/ \E s \in Sessions, amount \in Amounts, ok \in BOOLEAN :
           onSubmitAdditionalService(s, amount, ok)
    \/ \E s \in Sessions, price \in Amounts, ok \in BOOLEAN : onSubmitEquipment(s, price, ok)
    \/ \E s \in Sessions, d \in DiscountInputs, ok \in BOOLEAN : onSubmitDiscount(s, d, ok)
    \/ \E s \in Sessions, a \in PaymentInputs, ty \in PaymentTypes, ok \in BOOLEAN :
           onSubmitPayment(s, a, ty, ok)
    \/ \E s \in Sessions, ok \in BOOLEAN : onSubmitPaymentUpdate(s, ok)
    \/ \E s \in Sessions, index \in 1..(MaxServices + 1) : handleMarkServiceCompletedNoOp(s, index)
    \/ \E s \in Sessions, index \in 1..MaxServices : handleMarkServiceCompleted(s, index)
    \/ \E s \in Sessions, ok \in BOOLEAN : handleMarkServiceCompletedUpdate(s, ok)
    \/ \E s \in Sessions : handleDischargeRefused(s)
    \/ \E s \in Sessions, ok \in BOOLEAN : handleDischarge(s, ok)
    \/ \E s \in Sessions, ok \in BOOLEAN : handleDischargeBed(s, ok)
    \/ \E s \in Sessions, a \in PaymentInputs : handleSubmitPaymentInvalid(s, a)
    \/ \E s \in Sessions, d \in DiscountInputs : handleSubmitDiscountInvalid(s, d)

Spec == Init /\ [][Next]_vars

\* Navigation between two handlers.  While a handler of the session awaits, the
\* specifications below let the staff wait: the handler does not read what
\* navigation changes, and on success it sets selectedRecord itself.
OnValueWhenIdle(s) == pc[s] = "idle" /\ OnValue(s)

handleSearchWhenIdle(s, matches) == pc[s] = "idle" /\ handleSearch(s, matches)

handleSelectRecordWhenIdle(s) == pc[s] = "idle" /\ handleSelectRecord(s)

BackToResultsWhenIdle(s) == pc[s] = "idle" /\ BackToResults(s)

\* the handlers that write services and totalPaid, in two sessions
NextServices ==
    \/ \E s \in Sessions : OnValueWhenIdle(s)
    \/ \E s \in Sessions, matches \in BOOLEAN : handleSearchWhenIdle(s, matches)
    \/ \E s \in Sessions : handleSelectRecordWhenIdle(s)
    \/ \E s \in Sessions : BackToResultsWhenIdle(s)
    \/ \E s \in Sessions, amount \in Amounts, ok \in BOOLEAN :
           onSubmitAdditionalService(s, amount, ok)
    \/ \E s \in Sessions, index \in 1..(MaxServices + 1) : handleMarkServiceCompletedNoOp(s, index)
    \/ \E s \in Sessions, index \in 1..MaxServices : handleMarkServiceCompleted(s, index)
    \/ \E s \in Sessions, ok \in BOOLEAN : handleMarkServiceCompletedUpdate(s, ok)

SpecServices == InitWithBed /\ [][NextServices]_vars

\* the handler that writes payments and amount, in two sessions
NextPayments ==
    \/ \E s \in Sessions : OnValueWhenIdle(s)
    \/ \E s \in Sessions, matches \in BOOLEAN : handleSearchWhenIdle(s, matches)
    \/ \E s \in Sessions : handleSelectRecordWhenIdle(s)
    \/ \E s \in Sessions : BackToResultsWhenIdle(s)
    \/ \E s \in Sessions, a \in PaymentInputs, ty \in PaymentTypes, ok \in BOOLEAN :
           onSubmitPayment(s, a, ty, ok)
    \/ \E s \in Sessions, ok \in BOOLEAN : onSubmitPaymentUpdate(s, ok)
    \/ \E s \in Sessions, a \in PaymentInputs : handleSubmitPaymentInvalid(s, a)

SpecPayments == InitWithBed /\ [][NextPayments]_vars

\* the same handler in one session
NextPaymentSolo ==
    \/ OnValueWhenIdle("s1")
    \/ \E matches \in BOOLEAN : handleSearchWhenIdle("s1", matches)
    \/ handleSelectRecordWhenIdle("s1")
    \/ BackToResultsWhenIdle("s1")
    \/ \E a \in PaymentInputs, ty \in PaymentTypes, ok \in BOOLEAN :
           onSubmitPayment("s1", a, ty, ok)
    \/ \E ok \in BOOLEAN : onSubmitPaymentUpdate("s1", ok)
    \/ \E a \in PaymentInputs : handleSubmitPaymentInvalid("s1", a)

SpecPaymentSolo == InitWithBed /\ [][NextPaymentSolo]_vars

\* the handler that writes dischargeDate and the bed status, in two sessions
NextDischarge ==
    \/ \E s \in Sessions : OnValueWhenIdle(s)
    \/ \E s \in Sessions, matches \in BOOLEAN : handleSearchWhenIdle(s, matches)
    \/ \E s \in Sessions : handleSelectRecordWhenIdle(s)
    \/ \E s \in Sessions : BackToResultsWhenIdle(s)
    \/ \E s \in Sessions : handleDischargeRefused(s)
    \/ \E s \in Sessions, ok \in BOOLEAN : handleDischarge(s, ok)
    \/ \E s \in Sessions, ok \in BOOLEAN : handleDischargeBed(s, ok)

SpecDischarge == Init /\ [][NextDischarge]_vars

\* the handler that writes discountPercentage, in two sessions
NextDiscount ==
    \/ \E s \in Sessions : OnValueWhenIdle(s)
    \/ \E s \in Sessions, matches \in BOOLEAN : handleSearchWhenIdle(s, matches)
    \/ \E s \in Sessions : handleSelectRecordWhenIdle(s)
    \/ \E s \in Sessions : BackToResultsWhenIdle(s)
    \/ \E s \in Sessions, d \in DiscountInputs, ok \in BOOLEAN : onSubmitDiscount(s, d, ok)
    \/ \E s \in Sessions, d \in DiscountInputs : handleSubmitDiscountInvalid(s, d)

SpecDiscount == InitWithBed /\ [][NextDiscount]_vars

\* the discharge, and the handlers that write equipment and discountPercentage, in
\* two sessions
NextClosing ==
    \/ \E s \in Sessions : OnValueWhenIdle(s)
    \/ \E s \in Sessions, matches \in BOOLEAN : handleSearchWhenIdle(s, matches)
    \/ \E s \in Sessions : handleSelectRecordWhenIdle(s)
    \/ \E s \in Sessions : BackToResultsWhenIdle(s)
    \/ \E s \in Sessions, ok \in BOOLEAN : handleDischarge(s, ok)
    \/ \E s \in Sessions, ok \in BOOLEAN : handleDischargeBed(s, ok)
    \/ \E s \in Sessions, price \in Amounts, ok \in BOOLEAN : onSubmitEquipment(s, price, ok)
    \/ \E s \in Sessions, d \in Discounts, ok \in BOOLEAN : onSubmitDiscount(s, d, ok)

SpecClosing == InitWithBed /\ [][NextClosing]_vars

\* two sessions of the booking page, and an admission that lies in icu/bed_1
NextBooking ==
    \/ \E b \in Bookers, roomType \in RoomTypes : handleRoomTypeChange(b, roomType)
    \/ \E b \in Bookers : bedsOnValue(b)
    \/ \E b \in Bookers, bed \in {"bed_1", "bed_2"} : handleBedChange(b, bed)
    \/ \E b \in Bookers, ok \in BOOLEAN : onSubmit(b, ok)
    \/ \E b \in Bookers, ok \in BOOLEAN : onSubmitAdmission(b, ok)

SpecBooking == InitWithBed /\ [][NextBooking]_vars

\* one session of the booking page and two billing sessions that discharge
NextAdmissions ==
    \/ \E roomType \in RoomTypes : handleRoomTypeChange("b1", roomType)
    \/ bedsOnValue("b1")
    \/ \E bed \in {"bed_1", "bed_2"} : handleBedChange("b1", bed)
    \/ \E ok \in BOOLEAN : onSubmit("b1", ok)
    \/ \E ok \in BOOLEAN : onSubmitAdmission("b1", ok)
    \/ \E s \in Sessions : OnValueWhenIdle(s)
    \/ \E s \in Sessions : handleSelectRecordWhenIdle(s)
    \/ \E s \in Sessions, ok \in BOOLEAN : handleDischarge(s, ok)
    \/ \E s \in Sessions, ok \in BOOLEAN : handleDischargeBed(s, ok)

SpecAdmissions == InitWithBed /\ [][NextAdmissions]_vars

\* the daily report while the beds of the store change
NextReport ==
    \/ \E w \in DOMAIN ReportWards, status \in BedStatuses : bedAdded(w, status)
    \/ \E w \in DOMAIN ReportWards, i \in 1..MaxWardBeds, status \in BedStatuses :
           bedUpdated(w, i, status)
    \/ \E w \in DOMAIN ReportWards, i \in 1..MaxWardBeds : bedDeleted(w, i)

SpecReport == InitWithBed /\ [][NextReport]_vars

----------------------------------------------------------------------------
(* Properties of the payments (SpecPaymentSolo, SpecPayments) *)

\* C3: in one session whose payment calls have all succeeded, with an
\* admission booked without a deposit, the stored deposit is the sum of the
\* N amounts paid and the stored payment list holds N payments, and the record
\* on screen shows the same; measured whenever no payment call is half-way.
PaymentsAdditive ==
    (pc["s1"] = "idle" /\ ~okPayments.failed) =>
        /\ OrZero(store.amount) = 0 + okPayments.sum
        /\ Len(store.payments) = 0 + okPayments.count
        /\ selectedRecord["s1"] # <<>> =>
               /\ Selected("s1").amount = okPayments.sum
               /\ Len(Selected("s1").payments) = okPayments.count

\* two payments were recorded one after the other by the session
PaymentsAdditiveWitness ==
    /\ pc["s1"] = "idle"
    /\ ~okPayments.failed
    /\ okPayments.count = 2
    /\ selectedRecord["s1"] # <<>>
    /\ store.amount = okPayments.sum

\* C4: a payment whose call succeeded is in the stored payment list from then
\* on, with its amount, type and date.
RecordedPaymentsKept ==
    \A p \in okPayments.recorded : \E i \in DOMAIN store.payments : store.payments[i] = p

----------------------------------------------------------------------------
(* Properties of the services (SpecServices) *)

StoredCreatedAt(services) == {services[i].createdAt : i \in DOMAIN services}

\* C5: a stored service that is completed is not stored as pending afterwards.
CompletedStaysCompleted ==
    [][\A i \in DOMAIN store.services : \A j \in DOMAIN store'.services :
           (/\ store.services[i].status = "completed"
            /\ store'.services[j].createdAt = store.services[i].createdAt)
               => store'.services[j].status = "completed"]_vars

\* C6: no write takes a service out of the stored list.
ServicesNeverDeleted ==
    [][StoredCreatedAt(store.services) \subseteq StoredCreatedAt(store'.services)]_vars

EarlyReturns == {"returned: completed", "returned: missing"}

\* C7: a call of handleMarkServiceCompleted that takes the early return leaves
\* the store, selectedRecord, allRecords and loading as they were, and a call
\* that went as far as its write leaves the session with a record on which
\* the same call takes the early return.
MarkIsIdempotent ==
    /\ [][\A s \in Sessions :
             (lastCall'[s].op \in EarlyReturns /\ lastCall'[s] # lastCall[s])
                 => /\ store' = store
                    /\ bedStatus' = bedStatus
                    /\ selectedRecord' = selectedRecord
                    /\ allRecords' = allRecords
                    /\ loading' = loading]_vars
    /\ [](\A s \in Sessions :
             lastCall[s].op \in {"done", "failed"}
                 => /\ selectedRecord[s] # <<>>
                    /\ MarkIsNoOp(Selected(s).services, lastCall[s].index))

\* a session marked a service, the write went through, and the session called
\* the handler again on a completed service
MarkIsIdempotentWitness ==
    \E s \in Sessions :
        /\ lastCall[s].op = "returned: completed"
        /\ selectedRecord[s] # <<>>
        /\ store.totalPaid > 0
        /\ \E i \in DOMAIN Selected(s).services : Selected(s).services[i].status = "completed"

\* C8: while the write of handleMarkServiceCompleted is awaited, and after it
\* has failed, selectedRecord and the allRecords entry of the session show the
\* service as pending.
SnapshotKeptUntilWritten ==
    \A s \in Sessions :
        /\ pc[s] = "mark" =>
               LET at == closure[s].rec[1].services[closure[s].index].createdAt
               IN  /\ \A i \in DOMAIN Selected(s).services :
                          Selected(s).services[i].createdAt = at
                              => Selected(s).services[i].status = "pending"
                   /\ \A r \in DOMAIN allRecords[s] : \A i \in DOMAIN allRecords[s][r].services :
                          allRecords[s][r].services[i].createdAt = at
                              => allRecords[s][r].services[i].status = "pending"
        /\ lastCall[s].op = "failed" =>
               Selected(s).services[lastCall[s].index].status = "pending"

RECURSIVE StoredCompletedAmount(_)
StoredCompletedAmount(services) ==
    IF services = <<>> THEN 0
    ELSE (IF Head(services).status = "completed" THEN Head(services).amount ELSE 0)
             + StoredCompletedAmount(Tail(services))

\* C9: once a write of the services has stored totalPaid, the stored totalPaid
\* is the sum of the amounts of the stored services that are completed.
TotalPaidIsCompletedAmount ==
    store.totalPaid # Absent => store.totalPaid = StoredCompletedAmount(store.services)

\* the store holds a completed and a pending service
TotalPaidIsCompletedAmountWitness ==
    /\ store.totalPaid > 0
    /\ \E i \in DOMAIN store.services : store.services[i].status = "pending"
    /\ \E i \in DOMAIN store.services : store.services[i].status = "completed"

----------------------------------------------------------------------------
(* Properties of the discharge (SpecDischarge) *)

\* C10: when no discharge is half-way, an admission stored with a dischargeDate
\* has its bed stored as Available.
DischargeReleasesBed ==
    (store.dischargeDate # NoDate /\ \A s \in Sessions : pc[s] # "discharge")
        => bedStatus[<<store.roomType, store.bed>>] = "Available"

----------------------------------------------------------------------------
(* Properties of the pagination (SpecPaginator) *)

\* a run of the effect has finished and set pages
RunFinished == run = 0 /\ usableHeight # 0

RECURSIVE Flatten(_)
Flatten(pp) == IF pp = <<>> THEN <<>> ELSE Head(pp) \o Flatten(Tail(pp))

RECURSIVE PageHeight(_)
PageHeight(page) ==
    IF page = <<>> THEN 0 ELSE blocks[Head(page)] + PageHeight(Tail(page))

IsOversized(b) == blocks[b] > usableHeight

\* C15: the blocks of the pages, page after page, are the blocks of the input
\* in their order, each of them once; the same holds of the closed pages and
\* the page being filled while the run is under way.
PaginatorKeepsOrder ==
    /\ run # 0 => Flatten(contentPerPage) \o currentPage = [i \in 1..(run - 1) |-> i]
    /\ RunFinished => Flatten(pages) = [i \in 1..Len(blocks) |-> i]

\* four blocks were laid out on three pages, the first of them with two blocks
PaginatorKeepsOrderWitness ==
    /\ RunFinished
    /\ blocks = <<40, 120, 400, 300>>
    /\ Len(pages) = 3
    /\ Len(pages[1]) = 2

\* C16: every page, except one that holds a single block taller than the usable
\* height, has blocks whose heights add up to the usable height at most.
PaginatorCapacity ==
    RunFinished =>
        \A p \in DOMAIN pages :
            \/ Len(pages[p]) = 1 /\ IsOversized(pages[p][1])
            \/ PageHeight(pages[p]) <= usableHeight

\* a page that is full to the last pixel, followed by a page with an oversized block
PaginatorCapacityWitness ==
    /\ RunFinished
    /\ Len(pages) = 2
    /\ Len(pages[1]) = 2
    /\ PageHeight(pages[1]) = usableHeight
    /\ IsOversized(pages[2][1])

PaginatorGreedy ==
    RunFinished =>
        /\ \A p \in DOMAIN pages :
               (p + 1 \in DOMAIN pages /\ pages[p + 1] # <<>>)
                   => PageHeight(pages[p]) + blocks[pages[p + 1][1]] > usableHeight
        /\ \A p \in DOMAIN pages : \A i \in 2..Len(pages[p]) :
               PageHeight(SubSeq(pages[p], 1, i)) <= usableHeight
        /\ (blocks = <<40, 120, 400, 300>> /\ usableHeight = 500)
               => pages = << <<1, 2>>, <<3>>, <<4>> >>

\* the blocks 40, 120, 400, 300 were laid out
PaginatorGreedyWitness ==
    /\ RunFinished
    /\ blocks = <<40, 120, 400, 300>>
    /\ usableHeight = 500
    /\ pages[2] = <<3>>

\* C19: a run on the input of the run before it sets the pages that run has
\* set, whatever was run before the two.
PaginatorDeterministic ==
    (/\ RunFinished
     /\ previous # <<>>
     /\ previous[1].blocks = blocks
     /\ previous[1].usableHeight = usableHeight)
        => pages = previous[1].pages

\* the effect ran twice on the same blocks, which take more than one page
PaginatorDeterministicWitness ==
    /\ RunFinished
    /\ previous # <<>>
    /\ previous[1].blocks = blocks
    /\ previous[1].usableHeight = usableHeight
    /\ Len(blocks) = 3
    /\ Len(pages) = 2
    /\ currentHeight > 0

----------------------------------------------------------------------------
(* Properties of the closed admission (SpecDischarge, SpecClosing) *)

\* C11: a dischargeDate that is stored is neither cleared nor replaced.
DischargeDateKept ==
    [][store.dischargeDate # NoDate => store'.dischargeDate = store.dischargeDate]_vars

\* C12: once a dischargeDate is stored, no write changes the services, equipment,
\* payments, deposit, discount or totalPaid of the admission.
ClosedAdmissionFrozen ==
    [][store.dischargeDate # NoDate =>
           /\ store'.services = store.services
           /\ store'.equipment = store.equipment
           /\ store'.payments = store.payments
           /\ store'.amount = store.amount
           /\ store'.discountPercentage = store.discountPercentage
           /\ store'.totalPaid = store.totalPaid]_vars

----------------------------------------------------------------------------
(* Properties of the form validation (SpecPayments, SpecDiscount) *)

\* C13: a payment submission that the validation refuses leaves the store and
\* the records, the loading flag and the handlers of every session as they
\* were, and no payment with an amount of 0 or less is submitted to the store,
\* stored or shown.
NonPositivePaymentRefused ==
    /\ [][\A s \in Sessions :
             (<<s, "payment">> \in formHistory'.refused \ formHistory.refused)
                 => /\ store' = store
                    /\ selectedRecord' = selectedRecord
                    /\ allRecords' = allRecords
                    /\ loading' = loading
                    /\ pc' = pc]_vars
    /\ [](/\ \A i \in DOMAIN store.payments : store.payments[i].amount > 0
          /\ \A s \in Sessions :
                 /\ \A i \in DOMAIN closure[s].payment : closure[s].payment[i].amount > 0
                 /\ selectedRecord[s] # <<>> =>
                        \A i \in DOMAIN Selected(s).payments : Selected(s).payments[i].amount > 0)

\* a session that shows a recorded payment has had a submission refused since
NonPositivePaymentRefusedWitness ==
    \E s \in Sessions :
        /\ <<s, "payment">> \in formHistory.refused
        /\ selectedRecord[s] # <<>>
        /\ Selected(s).payments # <<>>
        /\ store.amount > 0

\* C14: the stored discountPercentage is the discount of the latest submission
\* that was written (none before the first), and it lies within 0..100.
DiscountOverwritten ==
    /\ store.discountPercentage =
           IF formHistory.discounts = <<>> THEN Absent
           ELSE formHistory.discounts[Len(formHistory.discounts)]
    /\ store.discountPercentage # Absent =>
           (store.discountPercentage >= 0 /\ store.discountPercentage <= 100)

\* a discount of 100 was written over a discount of 10, and a value out of range
\* has been refused
DiscountOverwrittenWitness ==
    /\ formHistory.discounts = <<10, 100>>
    /\ store.discountPercentage = 100
    /\ \E s \in Sessions : <<s, "discount">> \in formHistory.refused

----------------------------------------------------------------------------
(* Properties of the failed writes (SpecServices) *)

\* C21: a session whose handleMarkServiceCompleted call has failed on its write
\* has loading cleared and no handler awaiting, and the same call made again
\* goes as far as its write instead of taking the early return.
FailedWriteRetryable ==
    \A s \in Sessions :
        lastCall[s].op = "failed"
            => /\ ~loading[s]
               /\ pc[s] = "idle"
               /\ selectedRecord[s] # <<>>
               /\ ~MarkIsNoOp(Selected(s).services, lastCall[s].index)

----------------------------------------------------------------------------
(* Properties of the usable height (SpecPaginator) *)

\* the run lays out an invoice
IsInvoiceRun == \E n \in InvoiceRows, m \in InvoiceRows : blocks = InvoiceBlocks(n, m)

\* the run lays out a daily report
IsReportRun == \E n \in ReportRows, m \in ReportRows : blocks = ReportBlocks(n, m)

\* C22: the usable height of an invoice run is the height of the page box less
\* its top and bottom padding; the usable height of a report run is the page
\* height less the top and bottom offsets, and it is the 702 stated beside it.
UsableHeightIsPrintableArea ==
    /\ IsInvoiceRun => usableHeight = pageHeight - pagePaddingTop - pagePaddingBottom
    /\ IsReportRun =>
           /\ usableHeight = reportPageHeight - topOffset - bottomOffset
           /\ usableHeight = statedMaxContentHeight

----------------------------------------------------------------------------
(* Properties of the Remaining Balance (SpecServices) *)

\* C23: the payment call of a session that succeeds raises the Remaining
\* Balance of the session's record by the amount paid, and the
\* handleMarkServiceCompleted call that succeeds lowers it by the amount of the
\* service that was marked.
BalanceFollowsPaymentsAndServices ==
    [][\A s \in Sessions :
          /\ (pc[s] = "payment" /\ pc'[s] = "idle" /\ okPayments'.count = okPayments.count + 1)
                 => RemainingBalance(selectedRecord'[s][1])
                        = RemainingBalance(closure[s].rec[1]) + closure[s].payment[1].amount
          /\ (lastCall[s].op = "begun" /\ lastCall'[s].op = "done")
                 => RemainingBalance(selectedRecord'[s][1])
                        = RemainingBalance(Selected(s))
                              - Selected(s).services[lastCall[s].index].amount]_vars

----------------------------------------------------------------------------
(* Properties of the Outstanding Amount (SpecPayments) *)

\* C24: whenever no payment call is between its two writes, the stored
\* deposit less the sum of the stored payments, which is the Outstanding Amount
\* of the patient-details screen, is what it was when the admission was booked.
OutstandingAmountKept ==
    (\A s \in Sessions : pc[s] # "payment")
        => \E bed \in BedKeys :
               OutstandingAmount(store) = OutstandingAmount(BookedAdmission("icu", bed))

----------------------------------------------------------------------------
(* Properties of the beds and the admissions (SpecAdmissions, SpecBooking) *)

\* the admissions of ipd_bookings: the one the billing sessions work on, then
\* those the booking sessions have pushed
StoredAdmissions ==
    <<[roomType |-> store.roomType, bed |-> store.bed, dischargeDate |-> store.dischargeDate]>>
        \o bookings

\* the admissions without dischargeDate that lie in the bed p
OpenAdmissionsIn(p) ==
    {i \in DOMAIN StoredAdmissions :
        /\ StoredAdmissions[i].dischargeDate = NoDate
        /\ <<StoredAdmissions[i].roomType, StoredAdmissions[i].bed>> = p}

\* C25: the bed of every stored admission without dischargeDate has the status
\* Occupied.
OpenAdmissionBedOccupied ==
    \A p \in BedPaths : OpenAdmissionsIn(p) # {} => bedStatus[p] = "Occupied"

\* C26: no bed has two stored admissions without dischargeDate.
NoBedDoubleBooked ==
    \A p \in BedPaths : Cardinality(OpenAdmissionsIn(p)) <= 1

\* C27: the bed that a submission sets to Occupied is a bed of the inventory
\* whose status is Available when the submission writes it.
BookingTakesAvailableBed ==
    [][\A b \in Bookers :
          (bookingPc[b] = "idle" /\ bookingPc'[b] = "admission" /\ bookingData'[b][1].bed # "")
              => bedStatus[<<bookingData'[b][1].roomType, bookingData'[b][1].bed>>]
                     = "Available"]_vars

\* C28: whenever no submission is between its two writes, every bed with the
\* status Occupied has a stored admission that references it.
BookingAllOrNothing ==
    (\A b \in Bookers : bookingPc[b] = "idle")
        => \A p \in BedPaths :
               bedStatus[p] = "Occupied"
                   => \E i \in DOMAIN StoredAdmissions :
                          <<StoredAdmissions[i].roomType, StoredAdmissions[i].bed>> = p

----------------------------------------------------------------------------
(* Properties of the refused discharge (SpecDischarge) *)

\* C29: a handleDischarge call on a record without room type or bed leaves the
\* store, the beds, the loading flags, the handlers and the records of every
\* session as they were, with loading false; and for such a record no discharge
\* is under way and no dischargeDate is stored.
DischargeRefusedChangesNothing ==
    /\ [][\A s \in Sessions :
             (lastCall'[s].op = "discharge refused" /\ lastCall[s].op # "discharge refused")
                 => /\ store' = store
                    /\ bedStatus' = bedStatus
                    /\ loading' = loading
                    /\ ~loading'[s]
                    /\ pc' = pc
                    /\ selectedRecord' = selectedRecord
                    /\ allRecords' = allRecords
                    /\ filteredRecords' = filteredRecords]_vars
    /\ [](\A s \in Sessions :
             (selectedRecord[s] # <<>> /\ (Selected(s).roomType = "" \/ Selected(s).bed = ""))
                 => /\ pc[s] # "discharge"
                    /\ store.dischargeDate = NoDate)

\* a session has pressed Discharge Patient on an admission that was booked
\* without a bed
DischargeRefusedChangesNothingWitness ==
    \E s \in Sessions :
        /\ lastCall[s].op = "discharge refused"
        /\ selectedRecord[s] # <<>>
        /\ Selected(s).bed = ""
        /\ ~loading[s]
        /\ store.dischargeDate = NoDate

----------------------------------------------------------------------------
(* Properties of the bed metrics (SpecReport) *)

\* the beds of the snapshot: ward and position
ReportBedKeys ==
    {key \in (DOMAIN ReportWards) \X (1..MaxWardBeds) : key[2] <= Len(reportBeds[key[1]])}

\* two strings that differ in the case of their letters at most
EqualIgnoringCase(a, b) ==
    /\ Len(a) = Len(b)
    /\ \A i \in DOMAIN a :
          \/ a[i] = b[i]
          \/ <<a[i], b[i]>> \in CasePairs
          \/ <<b[i], a[i]>> \in CasePairs

\* C30: after every recomputation of the metrics from the beds snapshot,
\* bedsOccupied + bedsAvailable = totalBeds, totalBeds is the number of beds over
\* all wards, and bedsOccupied is the number of beds whose status equals
\* 'occupied' ignoring case.
MetricsMatchBeds ==
    /\ metrics.bedsOccupied + metrics.bedsAvailable = metrics.totalBeds
    /\ metrics.totalBeds = Cardinality(ReportBedKeys)
    /\ metrics.bedsOccupied =
          Cardinality({key \in ReportBedKeys :
                         EqualIgnoringCase(reportBeds[key[1]][key[2]].status, occupied)})

\* the metrics of a snapshot with a bed stored as 'Occupied', one stored as
\* 'OCCUPIED' and one that is available
MetricsMatchBedsWitness ==
    /\ \E key \in ReportBedKeys : reportBeds[key[1]][key[2]].status = Occupied
    /\ \E key \in ReportBedKeys : reportBeds[key[1]][key[2]].status = OCCUPIED
    /\ \E key \in ReportBedKeys : reportBeds[key[1]][key[2]].status = Available
    /\ metrics.bedsOccupied >= 2
    /\ metrics.bedsAvailable >= 1

====
